---- MODULE Spec2Model ----
(***************************************************************************)
(* A model of geoscript/layer/raster.py: the Raster class, its geometry    *)
(* accessors, resample's resolution of (bbox, rect, size) into a grid      *)
(* geometry, scale, crop, the algebra operators and the features()         *)
(* generator.  The coverage-processing engine is kept as a log of the      *)
(* operations dispatched to it (name and parameters) and a symbolic        *)
(* result; model-space coordinates are exact rationals.                    *)
(***************************************************************************)
EXTENDS Integers, Sequences, FiniteSets, TLC

VARIABLES root, cur, other, call, trace, steps, gen

vars == <<root, cur, other, call, trace, steps, gen>>

(***************************************************************************)
(* Bounds of the model                                                     *)
(***************************************************************************)
MaxExtent == 3
MaxSize == 2
MaxBox == 2
MaxRect == 2
MaxBands == 2
MaxSteps == 2

(***************************************************************************)
(* Numbers: Python floats, kept exact as normalised fractions n/d, d > 0.  *)
(***************************************************************************)
Abs(i) == IF i < 0 THEN -i ELSE i

RECURSIVE GCD(_, _)
GCD(a, b) == IF b = 0 THEN a ELSE GCD(b, a % b)

Norm(n, d) ==
  LET g == GCD(Abs(n), Abs(d))
      s == IF d < 0 THEN -1 ELSE 1
  IN [n |-> s * (n \div g), d |-> s * (d \div g)]

Num(i) == [n |-> i, d |-> 1]
RAdd(x, y) == Norm(x.n * y.d + y.n * x.d, x.d * y.d)
RSub(x, y) == Norm(x.n * y.d - y.n * x.d, x.d * y.d)
RMul(x, y) == Norm(x.n * y.n, x.d * y.d)
RDiv(x, y) == Norm(x.n * y.d, x.d * y.n)
RLe(x, y) == x.n * y.d <= y.n * x.d
RLt(x, y) == x.n * y.d < y.n * x.d
IsZero(x) == x.n = 0

\* A plausible slip: round half up instead of truncating.
IntRounding(x) == (2 * x.n + x.d) \div (2 * x.d)

\* Python's int() of a float: truncation toward zero.
PyInt(x) == IF x.n >= 0 THEN x.n \div x.d ELSE -((-x.n) \div x.d)

(***************************************************************************)
(* Python's None, and optional values as sequences of length 0 or 1.  A    *)
(* rect (x, y, w, h) and a size (w, h) are tuples; None and the empty      *)
(* tuple are both falsy, as in "if not rect".                              *)
(***************************************************************************)
None == <<>>
Some(x) == <<x>>
NoneStr == "None"

(***************************************************************************)
(* Bounds (geoscript.geom.Bounds)                                          *)
(***************************************************************************)
Bounds(w, s, e, n, prj) ==
  [west |-> w, south |-> s, east |-> e, north |-> n, proj |-> prj]

Width(b) == RSub(b.east, b.west)
Height(b) == RSub(b.north, b.south)
Aspect(b) == RDiv(Height(b), Width(b))

(***************************************************************************)
(* Coverages and rasters                                                   *)
(***************************************************************************)
\* One step of a coverage's symbolic pixel data, in postfix order.
Tok(name, consts) == [op |-> name, consts |-> consts]

Coverage(env, grid, nbands, data) ==
  [env |-> env, grid |-> grid, nbands |-> nbands, data |-> data]

\* Raster.__init__ with a coverage: the reader is stored as given, no read.
Raster(format, coverage, reader) ==
  [format |-> format, coverage |-> coverage, reader |-> reader]

getextent(r) == r.coverage.env
getsize(r) == r.coverage.grid
getproj(r) == r.coverage.env.proj
getbands(r) == r.coverage.nbands

\* A plausible slip: pixels per model unit instead of model units per pixel.
getpixelsizeInverted(r) ==
  <<RDiv(Num(getsize(r)[1]), Width(getextent(r))),
    RDiv(Num(getsize(r)[2]), Height(getextent(r)))>>

getpixelsize(r) ==
  <<RDiv(Width(getextent(r)), Num(getsize(r)[1])),
    RDiv(Height(getextent(r)), Num(getsize(r)[2]))>>

(***************************************************************************)
(* The engine: an operation is a name and its parameters; doOperation      *)
(* returns a new coverage.                                                 *)
(***************************************************************************)
GridGeometry(w, h, bounds) == [width |-> w, height |-> h, bounds |-> bounds]

\* crs is the CoordinateReferenceSystem parameter (Resample); arg is the
\* interpolation (scale) or the geometry (crop).
Op(name, sources, consts, gg, crs, arg) ==
  [name |-> name, sources |-> sources, constants |-> consts, gg |-> gg,
   crs |-> crs, arg |-> arg]

Min(a, b) == IF a <= b THEN a ELSE b
Range(f) == {f[i] : i \in DOMAIN f}

\* Raster._op: look the operation up, set the parameters, doOperation.
doOperation(op) ==
  LET s == op.sources[1] IN
  CASE op.name = "Resample" ->
         Coverage(op.gg[1].bounds, <<op.gg[1].width, op.gg[1].height>>,
                  s.nbands, Append(s.data, Tok("Resample", <<>>)))
    [] op.name = "ScaleCoverage" ->
         Coverage(s.env,
                  <<s.grid[1] * op.constants[1], s.grid[2] * op.constants[2]>>,
                  s.nbands, Append(s.data, Tok(op.name, op.constants)))
    [] op.name \in {"Add", "Multiply"} ->
         Coverage(s.env, s.grid, Min(s.nbands, op.sources[2].nbands),
                  Append(s.data \o op.sources[2].data, Tok(op.name, <<>>)))
    [] OTHER ->
         Coverage(s.env, s.grid, s.nbands,
                  Append(s.data, Tok(op.name, op.constants)))

\* What a call of a Raster method comes to: the exception raised ("" for
\* none), the operations dispatched to the engine in order, the grid
\* geometry constructed (resample) and the raster returned.
Outcome(error, ops, gg, result) ==
  [error |-> error, ops |-> ops, gg |-> gg, result |-> result]

(***************************************************************************)
(* Raster.resample                                                         *)
(***************************************************************************)
\* A plausible slip: the rectangle's far corner taken as (w, h) itself.
ResolveBoundsCorner(self, bbox, rect) ==
  IF bbox = None
  THEN IF rect # None
       THEN LET dx == getpixelsize(self)[1]
                dy == getpixelsize(self)[2]
                e == getextent(self)
            IN Bounds(RAdd(e.west, RMul(Num(rect[1]), dx)),
                      RAdd(e.south, RMul(Num(rect[2]), dy)),
                      RAdd(e.west, RMul(Num(rect[3]), dx)),
                      RAdd(e.south, RMul(Num(rect[4]), dy)),
                      e.proj)
       ELSE getextent(self)
  ELSE bbox[1]

\* Lines 112-124: the target bounds.  bbox is None or Some(Bounds).
ResolveBounds(self, bbox, rect) ==
  IF bbox = None
  THEN IF rect # None
       THEN LET dx == getpixelsize(self)[1]
                dy == getpixelsize(self)[2]
                e == getextent(self)
            IN Bounds(RAdd(e.west, RMul(Num(rect[1]), dx)),
                      RAdd(e.south, RMul(Num(rect[2]), dy)),
                      RAdd(e.west, RMul(Num(rect[1] + rect[3]), dx)),
                      RAdd(e.south, RMul(Num(rect[2] + rect[4]), dy)),
                      e.proj)
       ELSE getextent(self)
  ELSE bbox[1]

\* A plausible slip: the automatic size computed whenever no size is given.
ResolveSizeAlwaysAuto(self, bounds, rect, size) ==
  IF size = None
  THEN LET e == getextent(self)
           w == PyInt(RDiv(RMul(Num(getsize(self)[1]), Width(bounds)),
                           Width(e)))
       IN <<w, PyInt(RMul(Num(w), Aspect(e)))>>
  ELSE size

\* Lines 126-133: the target size; bounds is the resolved target bounds.
ResolveSize(self, bounds, rect, size) ==
  IF size = None
  THEN IF rect = None
       THEN LET e == getextent(self)
                w == PyInt(RDiv(RMul(Num(getsize(self)[1]), Width(bounds)),
                                Width(e)))
            IN <<w, PyInt(RMul(Num(w), Aspect(e)))>>
       ELSE <<rect[3], rect[4]>>
  ELSE size

\* The float divisions of the path taken: a zero divisor raises.
resampleRaises(self, bbox, rect, size) ==
  \/ bbox = None /\ rect # None
       /\ (getsize(self)[1] = 0 \/ getsize(self)[2] = 0)
  \/ size = None /\ rect = None /\ IsZero(Width(getextent(self)))

resample(self, bbox, rect, size) ==
  IF resampleRaises(self, bbox, rect, size)
  THEN Outcome("ZeroDivisionError", <<>>, None, None)
  ELSE LET bounds == ResolveBounds(self, bbox, rect)
           sz == ResolveSize(self, bounds, rect, size)
           gg == GridGeometry(sz[1], sz[2], bounds)
           op == Op("Resample", <<self.coverage>>, <<>>, Some(gg),
                    getproj(self), NoneStr)
       IN Outcome("", <<op>>, Some(gg),
                  Some(Raster(self.format, doOperation(op), self.reader)))

(***************************************************************************)
(* Raster.scale and Raster.crop                                            *)
(***************************************************************************)
Interpolations == {"nearest", "bilinear", "bicubic"}

\* util.jai.interpolation: an unrecognised mode fails.
interpolationRaises(interp) == interp \notin Interpolations

scale(self, x, y, interp) ==
  IF interpolationRaises(interp)
  THEN Outcome("UnsupportedInterpolation", <<>>, None, None)
  ELSE LET op == Op("ScaleCoverage", <<self.coverage>>, <<x, y, 0, 0>>, None,
                    NoneStr, interp)
       IN Outcome("", <<op>>, None,
                  Some(Raster(self.format, doOperation(op), self.reader)))

crop(self, geom) ==
  LET op == Op("CropCoverage", <<self.coverage>>, <<>>, None, NoneStr, geom)
  IN Outcome("", <<op>>, None,
             Some(Raster(self.format, doOperation(op), self.reader)))

(***************************************************************************)
(* The algebra operators.  The right operand is a Raster, a scalar or a    *)
(* list of scalars (isinstance decides).                                   *)
(***************************************************************************)
RasterOperand(r) == [kind |-> "raster", raster |-> Some(r), values |-> <<>>]
ScalarOperand(v) == [kind |-> "scalar", raster |-> None, values |-> <<v>>]
VectorOperand(vs) == [kind |-> "vector", raster |-> None, values |-> vs]

isRaster(operand) == operand.kind = "raster"

\* array(other if isinstance(other, (list, tuple)) else [other], 'd')
constants(operand) == operand.values

\* The constant-operand branch shared by __add__, __sub__, __mul__, __div__.
constOp(self, name, operand) ==
  LET op == Op(name, <<self.coverage>>, constants(operand), None, NoneStr,
               NoneStr)
  IN Outcome("", <<op>>, None,
             Some(Raster(self.format, doOperation(op), NoneStr)))

\* The raster-operand branch of __add__ and __mul__.
binaryOp(self, name, o) ==
  LET op == Op(name, <<self.coverage, o.coverage>>, <<>>, None, NoneStr,
               NoneStr)
  IN Outcome("", <<op>>, None,
             Some(Raster(self.format, doOperation(op), NoneStr)))

add(self, operand) ==
  IF isRaster(operand)
  THEN binaryOp(self, "Add", operand.raster[1])
  ELSE constOp(self, "AddConst", operand)

neg(self) ==
  LET op == Op("Invert", <<self.coverage>>, <<>>, None, NoneStr, NoneStr)
  IN Outcome("", <<op>>, None,
             Some(Raster(self.format, doOperation(op), self.reader)))

\* A plausible slip: the receiver negated instead of the operand.
subNegatesSelf(self, operand) ==
  IF isRaster(operand)
  THEN LET n == neg(self)
           a == add(n.result[1], operand)
       IN Outcome("", n.ops \o a.ops, None, a.result)
  ELSE constOp(self, "SubtractConst", operand)

sub(self, operand) ==
  IF isRaster(operand)
  THEN LET n == neg(operand.raster[1])
           a == add(self, RasterOperand(n.result[1]))
       IN Outcome("", n.ops \o a.ops, None, a.result)
  ELSE constOp(self, "SubtractConst", operand)

mul(self, operand) ==
  IF isRaster(operand)
  THEN binaryOp(self, "Multiply", operand.raster[1])
  ELSE constOp(self, "MultiplyConst", operand)

\* A plausible slip: the reciprocal taken of the receiver.
divInvertsSelf(self, operand) ==
  IF isRaster(operand)
  THEN LET o == operand.raster[1]
           inv == Op("DivideIntoConst", <<self.coverage>>, <<1>>, None,
                     NoneStr, NoneStr)
           m == mul(o, RasterOperand(Raster(self.format, doOperation(inv),
                                            NoneStr)))
       IN Outcome("", <<inv>> \o m.ops, None, m.result)
  ELSE constOp(self, "DivideByConst", operand)

div(self, operand) ==
  IF isRaster(operand)
  THEN LET o == operand.raster[1]
           inv == Op("DivideIntoConst", <<o.coverage>>, <<1>>, None, NoneStr,
                     NoneStr)
           m == mul(self, RasterOperand(Raster(o.format, doOperation(inv),
                                               NoneStr)))
       IN Outcome("", <<inv>> \o m.ops, None, m.result)
  ELSE constOp(self, "DivideByConst", operand)

(***************************************************************************)
(* The rasters and arguments the client code starts from                   *)
(***************************************************************************)
Proj == "EPSG:4326"

\* A raster read by a reader of a format: extent (w, s, w+ew, s+eh), size
\* (sx, sy), nb bands.
BaseRaster(w, s, ew, eh, sx, sy, nb, fmt, rdr, tag) ==
  Raster(fmt,
         Coverage(Bounds(Num(w), Num(s), Num(w + ew), Num(s + eh), Proj),
                  <<sx, sy>>, nb, <<Tok(tag, <<>>)>>),
         rdr)

\* Extent (0,0,100,50), size (100,50): pixel size 1 x 1.
ExampleRaster ==
  BaseRaster(0, 0, 100, 50, 100, 50, 1, "GeoTIFF", "readerA", "A")

ExampleRect == <<10, 10, 20, 10>>

Rasters ==
  {BaseRaster(1, 2, ew, eh, sx, sy, 1, "GeoTIFF", "readerA", "A") :
     ew \in 1..MaxExtent, eh \in 1..MaxExtent,
     sx \in 1..MaxSize, sy \in 1..MaxSize}
  \cup {ExampleRaster}

BBoxes ==
  {None} \cup
  {Some(Bounds(Num(0), Num(0), Num(bw), Num(bh), Proj)) :
     bw \in 0..MaxBox, bh \in 1..2}

Rects ==
  {None, ExampleRect} \cup
  {<<o[1], o[2], w, h>> :
     o \in {<<0, 0>>, <<1, 2>>}, w \in 0..MaxRect, h \in 0..MaxRect}

Sizes == {None, <<0, 0>>, <<0, 2>>, <<2, 0>>, <<2, 3>>}

ChainRaster(nb) == BaseRaster(1, 2, 2, 1, 2, 1, nb, "GeoTIFF", "readerA", "A")
OtherRaster(nb) == BaseRaster(1, 2, 2, 1, 2, 1, nb, "WorldImage", "readerB", "B")

ChainBBoxes == {None, Some(Bounds(Num(0), Num(0), Num(1), Num(1), Proj))}
ChainRects == {None, <<0, 0, 1, 1>>}
ChainSizes == {None, <<0, 1>>}
Factors == {<<1, 1>>, <<2, 1>>}
InterpNames == {"nearest", "bicubic", "lanczos"}
Operands(o) == {RasterOperand(o), ScalarOperand(2), VectorOperand(<<1, 2>>)}

(***************************************************************************)
(* State                                                                   *)
(*   root   the raster the client started from                             *)
(*   cur    the raster the client holds now (the receiver of the next call)*)
(*   other  a second raster, the right operand of raster algebra           *)
(*   call   the last call: method, receiver, arguments and outcome         *)
(*   trace  the engine operations the last call dispatched, in order       *)
(*   steps  the number of calls made                                       *)
(*   gen    the generator returned by features() and its engine cursor     *)
(***************************************************************************)
NoOperand == [kind |-> "none", raster |-> None, values |-> <<>>]

Args(bbox, rect, size, operand, factor, arg) ==
  [bbox |-> bbox, rect |-> rect, size |-> size, operand |-> operand,
   factor |-> factor, arg |-> arg]

NoArgs == Args(None, None, None, NoOperand, None, NoneStr)

GenIdle ==
  [pc |-> "idle", cursor |-> "none", closes |-> 0, remaining |-> 0,
   yielded |-> 0]

InitWith(r, o) ==
  /\ root = r
  /\ cur = r
  /\ other = o
  /\ call = [name |-> "none", self |-> r, args |-> NoArgs, error |-> "",
             result |-> None, gg |-> None]
  /\ trace = <<>>
  /\ steps = 0
  /\ gen = GenIdle

\* The client calls a method on cur and keeps the raster returned.
Finish(name, args, out) ==
  /\ steps < MaxSteps
  /\ call' = [name |-> name, self |-> cur, args |-> args,
              error |-> out.error, result |-> out.result, gg |-> out.gg]
  /\ trace' = out.ops
  /\ cur' = IF out.error = "" THEN out.result[1] ELSE cur
  /\ steps' = steps + 1
  /\ UNCHANGED <<root, other, gen>>

Resample(bbox, rect, size) ==
  Finish("resample", Args(bbox, rect, size, NoOperand, None, NoneStr),
         resample(cur, bbox, rect, size))

Scale(f, interp) ==
  Finish("scale", Args(None, None, None, NoOperand, f, interp),
         scale(cur, f[1], f[2], interp))

Crop(geom) ==
  Finish("crop", Args(None, None, None, NoOperand, None, geom),
         crop(cur, geom))

Add(operand) ==
  Finish("add", Args(None, None, None, operand, None, NoneStr),
         add(cur, operand))

Sub(operand) ==
  Finish("sub", Args(None, None, None, operand, None, NoneStr),
         sub(cur, operand))

Mul(operand) ==
  Finish("mul", Args(None, None, None, operand, None, NoneStr),
         mul(cur, operand))

Div(operand) ==
  Finish("div", Args(None, None, None, operand, None, NoneStr),
         div(cur, operand))

Neg ==
  Finish("neg", NoArgs, neg(cur))

(***************************************************************************)
(* Raster.features: a generator.  Nothing of its body runs before the      *)
(* first next(); it suspends at each yield; it.close() is the statement    *)
(* after the loop.                                                         *)
(***************************************************************************)
Features ==
  /\ gen.pc = "idle"
  /\ gen' = [gen EXCEPT !.pc = "created"]
  /\ UNCHANGED <<root, cur, other, call, trace, steps>>

\* The generator as next() finds it: a first next() runs the process and
\* opens the cursor.
Started(g) ==
  IF g.pc = "created"
  THEN [g EXCEPT !.cursor = "open",
                 !.remaining = getsize(cur)[1] * getsize(cur)[2]]
  ELSE g

\* next(): it.hasNext() holds, it.next() and Feature(f=f) succeed, yield.
GenNextYield ==
  /\ gen.pc \in {"created", "suspended"}
  /\ Started(gen).remaining > 0
  /\ gen' = [Started(gen) EXCEPT !.pc = "suspended",
                                 !.remaining = @ - 1,
                                 !.yielded = @ + 1]
  /\ UNCHANGED <<root, cur, other, call, trace, steps>>

\* next(): it.next() or Feature(f=f) raises; the exception leaves the
\* generator, which is then finished.
GenNextRaise ==
  /\ gen.pc \in {"created", "suspended"}
  /\ Started(gen).remaining > 0
  /\ gen' = [Started(gen) EXCEPT !.pc = "failed"]
  /\ UNCHANGED <<root, cur, other, call, trace, steps>>

\* next(): it.hasNext() fails, the loop ends, it.close(), StopIteration.
GenNextExhaust ==
  /\ gen.pc \in {"created", "suspended"}
  /\ Started(gen).remaining = 0
  /\ gen' = [Started(gen) EXCEPT !.pc = "exhausted",
                                 !.cursor = "closed",
                                 !.closes = @ + 1]
  /\ UNCHANGED <<root, cur, other, call, trace, steps>>

\* The consumer drops the generator (close(), or its collection):
\* GeneratorExit is raised at the yield and nothing after it runs.
GenAbandon ==
  /\ gen.pc \in {"created", "suspended"}
  /\ gen' = [gen EXCEPT !.pc = "abandoned"]
  /\ UNCHANGED <<root, cur, other, call, trace, steps>>

(***************************************************************************)
(* Specifications                                                          *)
(***************************************************************************)
\* A chain of transforms from a raster.
Init == \E a \in 1..MaxBands, b \in 1..MaxBands :
          InitWith(ChainRaster(a), OtherRaster(b))

Next ==
  \/ \E bbox \in ChainBBoxes, rect \in ChainRects, size \in ChainSizes :
       Resample(bbox, rect, size)
  \/ \E f \in Factors, interp \in InterpNames : Scale(f, interp)
  \/ Crop("polygon")
  \/ \E operand \in Operands(other) : Add(operand)
  \/ \E operand \in Operands(other) : Sub(operand)
  \/ \E operand \in Operands(other) : Mul(operand)
  \/ \E operand \in Operands(other) : Div(operand)
  \/ Neg

Spec == Init /\ [][Next]_vars

\* One resample call on a raster, over all its arguments.
InitResample == \E r \in Rasters : InitWith(r, OtherRaster(1))

NextResample ==
  \E bbox \in BBoxes \cup {Some(getextent(cur))}, rect \in Rects,
     size \in Sizes \cup {getsize(cur)} :
    steps = 0 /\ Resample(bbox, rect, size)

SpecResample == InitResample /\ [][NextResample]_vars

\* One features() sequence over a raster and its consumer.
InitFeatures == \E r \in Rasters \ {ExampleRaster} : InitWith(r, OtherRaster(1))

NextFeatures ==
  \/ Features
  \/ GenNextYield
  \/ GenNextRaise
  \/ GenNextExhaust
  \/ GenAbandon

SpecFeatures == InitFeatures /\ [][NextFeatures]_vars

(***************************************************************************)
(* Properties                                                              *)
(***************************************************************************)
IsResample == call.name = "resample"
Self == call.self
ArgBBox == call.args.bbox
ArgRect == call.args.rect
ArgSize == call.args.size
Operand == call.args.operand
GG == call.gg[1]
OutSize == <<GG.width, GG.height>>

\* The trace of a resample that went through: one Resample of the
\* receiver's coverage with the grid geometry constructed.
ResampleDispatched ==
  /\ call.error = ""
  /\ call.gg # None
  /\ Len(trace) = 1
  /\ trace[1].name = "Resample"
  /\ trace[1].sources = <<Self.coverage>>
  /\ trace[1].gg = call.gg

RectOnly == IsResample /\ ArgBBox = None /\ ArgRect # None /\ ArgSize = None

\* C1: resample with rect = (x, y, w, h) and neither bbox nor size resolves
\* the bounds to (west + x*px, south + y*py, west + (x+w)*px,
\* south + (y+h)*py), px = extent.width/size.x and py = extent.height/size.y
\* of the current raster, with the current extent's CRS, and the size to
\* (w, h); extent (0,0,100,50), size (100,50), rect (10,10,20,10) gives
\* bounds (10,10,30,20) and size (20,10).
C1_RectToBounds ==
  RectOnly =>
    LET e == getextent(Self)
        sx == Num(getsize(Self)[1])
        sy == Num(getsize(Self)[2])
        r == ArgRect
    IN /\ ResampleDispatched
       /\ RMul(RSub(GG.bounds.west, e.west), sx) = RMul(Num(r[1]), Width(e))
       /\ RMul(RSub(GG.bounds.south, e.south), sy) = RMul(Num(r[2]), Height(e))
       /\ RMul(RSub(GG.bounds.east, e.west), sx)
            = RMul(Num(r[1] + r[3]), Width(e))
       /\ RMul(RSub(GG.bounds.north, e.south), sy)
            = RMul(Num(r[2] + r[4]), Height(e))
       /\ GG.bounds.proj = e.proj
       /\ OutSize = <<r[3], r[4]>>
       /\ (Self = ExampleRaster /\ r = ExampleRect) =>
            /\ GG.bounds = Bounds(Num(10), Num(10), Num(30), Num(20), Proj)
            /\ OutSize = <<20, 10>>

C1_Witness ==
  /\ RectOnly
  /\ Self = ExampleRaster
  /\ ArgRect = ExampleRect
  /\ call.result # None
  /\ getsize(call.result[1]) = <<20, 10>>

AutoSize == IsResample /\ ArgSize = None /\ ArgRect = None

\* The bounds an automatic size is computed from: the bbox given, or the
\* full extent.
Target == IF ArgBBox = None THEN getextent(Self) ELSE ArgBBox[1]

\* currentSize.x * bbox.width / currentExtent.width
ExactWidth ==
  RDiv(RMul(Num(getsize(Self)[1]), Width(Target)), Width(getextent(Self)))

\* outWidth * currentExtent.aspect
ExactHeight == RMul(Num(GG.width), Aspect(getextent(Self)))

RAbs(x) == [n |-> Abs(x.n), d |-> x.d]
IsNearest(k, x) == RLe(RMul(Num(2), RAbs(RSub(Num(k), x))), Num(1))
IsTruncation(k, x) == RLe(Num(k), x) /\ RLt(x, Num(k + 1))

\* C2 as stated: with no size and no rect, outWidth is
\* currentSize.x * bbox.width / currentExtent.width rounded to the nearest
\* integer and outHeight is outWidth * currentExtent.aspect rounded to the
\* nearest integer.
C2_SizeRounded ==
  (AutoSize /\ call.error = "") =>
    /\ IsNearest(GG.width, ExactWidth)
    /\ IsNearest(GG.height, ExactHeight)

\* C2 as amended: with no size and no rect, outWidth is
\* currentSize.x * bbox.width / currentExtent.width with its fraction
\* dropped and outHeight is outWidth * currentExtent.aspect with its
\* fraction dropped: the height comes from the computed width and the
\* current extent's aspect, whatever the bbox's height.
C2_SizeTruncated ==
  AutoSize =>
    /\ ResampleDispatched
    /\ GG.bounds = Target
    /\ IsTruncation(GG.width, ExactWidth)
    /\ IsTruncation(GG.height, ExactHeight)

C2_Witness ==
  /\ AutoSize
  /\ ArgBBox # None
  /\ call.result # None
  /\ ExactWidth.d # 1
  /\ ExactHeight.d # 1
  /\ GG.width >= 1
  /\ Height(Target) # Height(getextent(Self))

\* C3: whenever the resolved output width or height of a resample is 0 (or
\* less), resample fails with InvalidGeometry: no grid geometry is
\* constructed and no Resample operation is dispatched.
C3_ZeroSizeRejected ==
  IsResample =>
    LET sz == ResolveSize(Self, ResolveBounds(Self, ArgBBox, ArgRect),
                          ArgRect, ArgSize)
    IN (sz[1] <= 0 \/ sz[2] <= 0) =>
         /\ call.error = "InvalidGeometry"
         /\ call.gg = None
         /\ trace = <<>>

\* C7: resampling a raster to its own extent and size gives a grid
\* geometry with the raster's bounds and size; so does resample() with no
\* bbox, rect or size, for every raster.
C7_ResampleToSelf ==
  (/\ IsResample
   /\ ArgRect = None
   /\ \/ ArgBBox = None /\ ArgSize = None
      \/ ArgBBox = Some(getextent(Self)) /\ ArgSize = getsize(Self)) =>
    /\ ResampleDispatched
    /\ GG.bounds = getextent(Self)
    /\ OutSize = getsize(Self)

RectNoSize == IsResample /\ ArgRect # None /\ ArgSize = None

\* The output pixel size equals the current pixel size:
\* bounds.width / rect.width = extent.width / size.x, and so for heights.
SamePixelSize ==
  /\ RMul(Width(GG.bounds), Num(getsize(Self)[1]))
       = RMul(Num(ArgRect[3]), Width(getextent(Self)))
  /\ RMul(Height(GG.bounds), Num(getsize(Self)[2]))
       = RMul(Num(ArgRect[4]), Height(getextent(Self)))

\* C10 as stated: every resample with rect and no size has output size
\* (rect.width, rect.height) and the current raster's pixel size, also
\* when bbox is supplied with rect (taken here for rects of positive
\* width and height and bounds of positive width and height, where the
\* output pixel size is defined and not zero).
C10_RectOneToOne ==
  (/\ RectNoSize
   /\ call.error = ""
   /\ ArgRect[3] > 0
   /\ ArgRect[4] > 0
   /\ ~IsZero(Width(GG.bounds))
   /\ ~IsZero(Height(GG.bounds))) =>
    /\ OutSize = <<ArgRect[3], ArgRect[4]>>
    /\ SamePixelSize

\* C10 as amended: every resample with rect and no size has output size
\* (rect.width, rect.height); without bbox the bounds span rect.width by
\* rect.height current pixels (the current pixel size is kept); with bbox
\* the bounds are the bbox itself.
C10_RectOneToOneNoBBox ==
  RectNoSize =>
    /\ ResampleDispatched
    /\ OutSize = <<ArgRect[3], ArgRect[4]>>
    /\ ArgBBox = None => SamePixelSize
    /\ ArgBBox # None => GG.bounds = ArgBBox[1]

C10_Witness ==
  /\ RectNoSize
  /\ ArgBBox # None
  /\ ArgRect[3] > 0
  /\ ArgRect[4] > 0
  /\ call.result # None
  /\ ~SamePixelSize

\* C4: after any sequence of transforms from a raster with format F and
\* reader R, the raster derived (and each transform's result) has format F
\* and reader R.
C4_LineageKept ==
  /\ cur.format = root.format
  /\ cur.reader = root.reader
  /\ call.result # None =>
       /\ call.result[1].format = Self.format
       /\ call.result[1].reader = Self.reader

IsBinary == call.name \in {"add", "sub", "mul", "div"}

\* C5: a binary operator on two rasters whose band counts differ fails
\* with BandCountMismatch before any engine operation is dispatched,
\* returns no raster and leaves both operands as they were.
C5_BandMismatchRejected ==
  (/\ IsBinary
   /\ isRaster(Operand)
   /\ getbands(Self) # getbands(Operand.raster[1])) =>
    /\ call.error = "BandCountMismatch"
    /\ trace = <<>>
    /\ call.result = None
    /\ cur = Self
    /\ other = Operand.raster[1]

RasterSub == call.name = "sub" /\ isRaster(Operand)

\* C8: a - b on rasters dispatches exactly two engine operations, first
\* Invert of b alone, then Add with a as first source and the negated b as
\* second; a is never negated, and the result is that of
\* a.__add__(b.__neg__()).
C8_SubIsNegateThenAdd ==
  RasterSub =>
    LET a == Self
        b == Operand.raster[1]
    IN /\ call.error = ""
       /\ Len(trace) = 2
       /\ trace[1].name = "Invert"
       /\ trace[1].sources = <<b.coverage>>
       /\ trace[2].name = "Add"
       /\ trace[2].sources = <<a.coverage, doOperation(trace[1])>>
       /\ \A i \in DOMAIN trace :
            trace[i].name = "Invert" => a.coverage \notin Range(trace[i].sources)
       /\ call.result = add(a, RasterOperand(neg(b).result[1])).result
       /\ call.result[1].coverage = doOperation(trace[2])

C8_Witness ==
  /\ RasterSub
  /\ call.result # None
  /\ getbands(Self) = getbands(Operand.raster[1])
  /\ cur = call.result[1]

RasterDiv == call.name = "div" /\ isRaster(Operand)

\* C9: a / b on rasters dispatches, in this order, DivideIntoConst with the
\* single constant 1 on b alone, then Multiply with a as first source and
\* that reciprocal as second; no direct divide of a by b is dispatched, a
\* is not passed to the reciprocal step and b is not modified.
C9_DivIsReciprocalThenMultiply ==
  RasterDiv =>
    LET a == Self
        b == Operand.raster[1]
    IN /\ call.error = ""
       /\ Len(trace) = 2
       /\ trace[1].name = "DivideIntoConst"
       /\ trace[1].constants = <<1>>
       /\ trace[1].sources = <<b.coverage>>
       /\ trace[2].name = "Multiply"
       /\ trace[2].sources = <<a.coverage, doOperation(trace[1])>>
       /\ call.result[1].coverage = doOperation(trace[2])
       /\ other = b

C9_Witness ==
  /\ RasterDiv
  /\ call.result # None
  /\ Len(trace) = 2
  /\ cur = call.result[1]

GenFinished == gen.pc \in {"exhausted", "abandoned", "failed"}

\* C6: every feature sequence that ends (exhausted, abandoned after some
\* features, or failed while producing one) has closed the cursor it
\* opened, exactly once.
C6_CursorReleased ==
  (GenFinished /\ gen.cursor # "none") =>
    /\ gen.cursor = "closed"
    /\ gen.closes = 1

====
